---- MODULE Spec2Model ----
(***************************************************************************)
(* AIPL interpreter (sandkoan/brier): the line classifier, command parser, *)
(* argument resolver and script loop of src/interpreter.py.                *)
(*                                                                         *)
(* Text is a sequence of atoms.  An atom is a TLA+ string standing for one *)
(* character (" ", "!", "#", "=", "$", a digit, ...) or for one run of     *)
(* word characters that the script never splits (an operator name such as  *)
(* "print", a key such as "sep").  A Python str is the sequence of its     *)
(* atoms, so strip, split, startswith, int() and the argument regex are    *)
(* computed on the text and not assumed.                                   *)
(***************************************************************************)
EXTENDS Integers, Sequences, FiniteSets, TLC

(***************************************************************************)
(* Values                                                                  *)
(***************************************************************************)
None == [tag |-> "none"]

IntV(n) == [tag |-> "int", n |-> n]

\* only integer-valued floats occur: the script alphabet has no fraction digits
FloatV(n) == [tag |-> "float", n |-> n]

StrV(s) == [tag |-> "str", s |-> s]

ListV(l) == [tag |-> "list", l |-> l]

\* functools.partial(op, *bound): the operator's name and the bound positional arguments
Partial(op, bound) == [tag |-> "partial", op |-> op, bound |-> bound]

\* the interpreter object itself, where it is passed as an argument
Interp == [tag |-> "interp"]

\* a raised exception: its class, its message and the text the message carries
Err(kind, msg, arg) == [tag |-> "error", kind |-> kind, msg |-> msg, arg |-> arg]

IsErr(v) == v.tag = "error"

\* v bound to the local name that F reads: `x = v` followed by the code F
LetIn(v, F(_)) == F(v)

\* Python truthiness: `not v`
Falsy(v) ==
    \/ v.tag = "none"
    \/ v.tag \in {"int", "float"} /\ v.n = 0
    \/ v.tag = "str" /\ v.s = <<>>
    \/ v.tag = "list" /\ v.l = <<>>

(***************************************************************************)
(* Text helpers (str methods)                                              *)
(***************************************************************************)
IsSpace(a) == a \in {" ", "\t", "\n"}

Punct == {" ", "\t", "\n", "!", "#", "?", "|>", "=", "$", "[", "]", ",", "\"",
          "'", "-", "+", ".", "{}"}

\* regex \w: every atom that is not punctuation is a run of word characters
IsWord(a) == a \notin Punct

RECURSIVE lstrip(_)
lstrip(s) == IF s # <<>> /\ IsSpace(Head(s)) THEN lstrip(Tail(s)) ELSE s

RECURSIVE rstrip(_)
rstrip(s) ==
    IF s # <<>> /\ IsSpace(s[Len(s)]) THEN rstrip(SubSeq(s, 1, Len(s) - 1)) ELSE s

\* a strip that leaves the trailing blanks
strip_leading_only(s) == lstrip(s)

\* str.strip()
strip(s) == rstrip(lstrip(s))

\* str.startswith(p) for a one-atom prefix
startswith(s, a) == s # <<>> /\ s[1] = a

endswith(s, a) == s # <<>> /\ s[Len(s)] = a

\* s[1:-1]
Inner(s) == SubSeq(s, 2, Len(s) - 1)

IsPrefixAt(s, i, sep) ==
    /\ i + Len(sep) - 1 <= Len(s)
    /\ SubSeq(s, i, i + Len(sep) - 1) = sep

\* str.split(sep) for a non-empty separator: the pieces between occurrences
RECURSIVE SplitFrom(_, _, _, _)
SplitFrom(s, sep, i, cur) ==
    IF i > Len(s) THEN <<cur>>
    ELSE IF IsPrefixAt(s, i, sep)
         THEN <<cur>> \o SplitFrom(s, sep, i + Len(sep), <<>>)
         ELSE SplitFrom(s, sep, i + 1, Append(cur, s[i]))

split(s, sep) == SplitFrom(s, sep, 1, <<>>)

\* str.split(): the maximal runs of non-whitespace atoms
RECURSIVE WordsFrom(_, _, _)
WordsFrom(s, i, cur) ==
    IF i > Len(s) THEN (IF cur = <<>> THEN <<>> ELSE <<cur>>)
    ELSE IF IsSpace(s[i])
         THEN (IF cur = <<>> THEN <<>> ELSE <<cur>>) \o WordsFrom(s, i + 1, <<>>)
         ELSE WordsFrom(s, i + 1, Append(cur, s[i]))

split_ws(s) == WordsFrom(s, 1, <<>>)

\* the index of the last atom of the run of non-blank atoms that starts at i
RECURSIVE NonSpaceRunEnd(_, _)
NonSpaceRunEnd(s, i) ==
    IF i + 1 <= Len(s) /\ ~IsSpace(s[i + 1]) THEN NonSpaceRunEnd(s, i + 1) ELSE i

\* the index of the last atom of the run of word atoms that starts at i
RECURSIVE WordRunEnd(_, _)
WordRunEnd(s, i) ==
    IF i + 1 <= Len(s) /\ IsWord(s[i + 1]) THEN WordRunEnd(s, i + 1) ELSE i

\* str.split(maxsplit=1): the first word and the rest with its leading blanks removed
split_max1(s) ==
    LET t == lstrip(s) IN
    IF t = <<>> THEN <<>>
    ELSE LET e == NonSpaceRunEnd(t, 1)
             rest == lstrip(SubSeq(t, e + 1, Len(t)))
         IN IF rest = <<>> THEN <<SubSeq(t, 1, e)>> ELSE <<SubSeq(t, 1, e), rest>>

\* the first index >= i holding atom a, 0 when there is none
RECURSIVE IndexOf(_, _, _)
IndexOf(s, i, a) ==
    IF i > Len(s) THEN 0 ELSE IF s[i] = a THEN i ELSE IndexOf(s, i + 1, a)

RECURSIVE Concat(_)
Concat(ss) == IF ss = <<>> THEN <<>> ELSE Head(ss) \o Concat(Tail(ss))

\* sep.join(parts) on texts
RECURSIVE JoinText(_, _)
JoinText(sep, parts) ==
    IF parts = <<>> THEN <<>>
    ELSE IF Len(parts) = 1 THEN parts[1]
    ELSE parts[1] \o sep \o JoinText(sep, Tail(parts))

(***************************************************************************)
(* Numbers and their text                                                  *)
(***************************************************************************)
Digits == {"0", "1", "2", "3", "4", "5", "6", "7", "8", "9"}

DigitVal(a) == CHOOSE d \in 0..9 : ToString(d) = a

AllDigits(s) == s # <<>> /\ \A i \in 1..Len(s) : s[i] \in Digits

RECURSIVE DecVal(_)
DecVal(s) == IF s = <<>> THEN 0 ELSE 10 * DecVal(SubSeq(s, 1, Len(s) - 1)) + DigitVal(s[Len(s)])

RECURSIVE DecText(_)
DecText(n) == IF n < 10 THEN <<ToString(n)>> ELSE Append(DecText(n \div 10), ToString(n % 10))

IntText(n) == IF n < 0 THEN <<"-">> \o DecText(0 - n) ELSE DecText(n)

\* the text of a float literal with value n: "5.0"
FloatText(n) == IntText(n) \o <<".", "0">>

\* int(text): blanks stripped, an optional sign, decimal digits
IsIntText(s) ==
    LET t == strip(s)
        u == IF t # <<>> /\ t[1] \in {"-", "+"} THEN Tail(t) ELSE t
    IN AllDigits(u)

IntOfText(s) ==
    LET t == strip(s)
        neg == t # <<>> /\ t[1] = "-"
        u == IF t # <<>> /\ t[1] \in {"-", "+"} THEN Tail(t) ELSE t
    IN IF neg THEN 0 - DecVal(u) ELSE DecVal(u)

\* float(text) on the texts of the alphabet: an int text, or digits "." zeros
IsFloatText(s) ==
    LET t == strip(s)
        u == IF t # <<>> /\ t[1] \in {"-", "+"} THEN Tail(t) ELSE t
        d == IndexOf(u, 1, ".")
    IN \/ AllDigits(u)
       \/ /\ d > 1
          /\ AllDigits(SubSeq(u, 1, d - 1))
          /\ \A i \in (d + 1)..Len(u) : u[i] = "0"

FloatOfText(s) ==
    LET t == strip(s)
        d == IndexOf(t, 1, ".")
    IN IF d = 0 THEN IntOfText(t) ELSE IntOfText(SubSeq(t, 1, d - 1))

(***************************************************************************)
(* Python builtins on values                                               *)
(***************************************************************************)
TypeError == Err("TypeError", "", <<>>)

AttributeError == Err("AttributeError", "", <<>>)

IsNum(v) == v.tag \in {"int", "float"}

Iterable(v) == v.tag \in {"list", "str"}

\* the elements a for-loop over v visits
IterOf(v) == IF v.tag = "list" THEN v.l ELSE [i \in 1..Len(v.s) |-> StrV(<<v.s[i]>>)]

RECURSIVE PyStr(_)

\* repr(v)
PyRepr(v) == IF v.tag = "str" THEN <<"'">> \o v.s \o <<"'">> ELSE PyStr(v)

\* str(v)
PyStr(v) ==
    CASE v.tag = "none" -> <<"None">>
      [] v.tag = "int" -> IntText(v.n)
      [] v.tag = "float" -> FloatText(v.n)
      [] v.tag = "str" -> v.s
      [] v.tag = "list" ->
            <<"[">> \o JoinText(<<",", " ">>, [i \in 1..Len(v.l) |->
                PyRepr(v.l[i])])
            \o <<"]">>
      [] OTHER -> <<"<object>">>

\* int(v)
PyInt(v) ==
    CASE v.tag = "int" -> v
      [] v.tag = "float" -> IntV(v.n)
      [] v.tag = "str" ->
            IF IsIntText(v.s) THEN IntV(IntOfText(v.s))
            ELSE Err("ValueError", "invalid literal for int()", v.s)
      [] OTHER -> TypeError

\* float(v)
PyFloat(v) ==
    CASE v.tag = "int" -> FloatV(v.n)
      [] v.tag = "float" -> v
      [] v.tag = "str" ->
            IF IsFloatText(v.s) THEN FloatV(FloatOfText(v.s))
            ELSE Err("ValueError", "could not convert string to float", v.s)
      [] OTHER -> TypeError

\* a + b
PyAdd(a, b) ==
    CASE IsNum(a) /\ IsNum(b) ->
            IF a.tag = "int" /\ b.tag = "int" THEN IntV(a.n + b.n) ELSE FloatV(a.n + b.n)
      [] a.tag = "str" /\ b.tag = "str" -> StrV(a.s \o b.s)
      [] a.tag = "list" /\ b.tag = "list" -> ListV(a.l \o b.l)
      [] OTHER -> TypeError

\* the first error of a sequence of values, or the sequence as a list
FirstErr(vs) ==
    IF \E i \in 1..Len(vs) : IsErr(vs[i])
    THEN vs[CHOOSE i \in 1..Len(vs) : IsErr(vs[i]) /\ \A j \in 1..(i - 1) : ~IsErr(vs[j])]
    ELSE ListV(vs)

RECURSIVE SumFrom(_, _)
SumFrom(acc, vs) ==
    IF IsErr(acc) \/ vs = <<>> THEN acc ELSE SumFrom(PyAdd(acc, Head(vs)), Tail(vs))

(***************************************************************************)
(* Operator implementations (interpreter.py, "Operator implementations")   *)
(***************************************************************************)
op_print(v) == v

\* input(prompt): the line waiting on standard input
op_input(prompt, stdin) == StrV(stdin)

\* aipl.operators.get(op_name) needs a hashable name; the name is returned
op_inspect_op(aipl, op_name) == IF op_name.tag = "list" THEN TypeError ELSE op_name

op_join(l, sep) ==
    IF sep.tag # "str" THEN AttributeError
    ELSE IF ~Iterable(l) THEN TypeError
    ELSE IF \E i \in 1..Len(IterOf(l)) : IterOf(l)[i].tag # "str" THEN TypeError
    ELSE StrV(JoinText(sep.s, [i \in 1..Len(IterOf(l)) |-> IterOf(l)[i].s]))

op_split(s, sep) ==
    IF s.tag # "str" THEN AttributeError
    ELSE IF sep.tag = "none" THEN ListV([i \in 1..Len(split_ws(s.s)) |-> StrV(split_ws(s.s)[i])])
    ELSE IF sep.tag # "str" THEN TypeError
    ELSE IF sep.s = <<>> THEN Err("ValueError", "empty separator", <<>>)
    ELSE ListV([i \in 1..Len(split(s.s, sep.s)) |-> StrV(split(s.s, sep.s)[i])])

op_sum(l) == IF ~Iterable(l) THEN TypeError ELSE SumFrom(IntV(0), IterOf(l))

op_int(v) == PyInt(v)

op_float(v) == PyFloat(v)

\* fmt.format(v): each "{}" is a replacement field; a second one has no argument
op_format(fmt, v) ==
    IF fmt.tag # "str" THEN AttributeError
    ELSE LET n == Cardinality({i \in 1..Len(fmt.s) : fmt.s[i] = "{}"}) IN
         IF n > 1 THEN Err("IndexError", "Replacement index out of range", <<>>)
         ELSE StrV(Concat([i \in 1..Len(fmt.s) |->
                  IF fmt.s[i] = "{}" THEN PyStr(v) ELSE <<fmt.s[i]>>]))

op_add(a, b) == PyAdd(a, b)

op_map_int(l) ==
    IF ~Iterable(l) THEN TypeError
    ELSE FirstErr([i \in 1..Len(IterOf(l)) |-> PyInt(IterOf(l)[i])])

\* every element calls aipl.apply_operator(op, {"$": x}) without its `result`
\* argument, which raises TypeError; only an empty iterable gets through
op_map(aipl, op, l) ==
    IF ~Iterable(l) THEN TypeError
    ELSE IF IterOf(l) = <<>> THEN ListV(<<>>) ELSE TypeError

(***************************************************************************)
(* Operator registry                                                       *)
(***************************************************************************)
Param(name, hint) == [name |-> name, hint |-> hint, has_default |-> FALSE, default |-> None]

ParamD(name, hint, default) ==
    [name |-> name, hint |-> hint, has_default |-> TRUE, default |-> default]

\* what @defop attaches to the function, and the function's own signature
\* (hint "" is a parameter without annotation)
defop(func, name, arity, needs_interpreter, params) ==
    [func |-> func, aipl_name |-> name, aipl_arity |-> arity,
     aipl_needs_interpreter |-> needs_interpreter, params |-> params]

\* the decorated functions among the module globals, in definition order
Globals == <<
    defop("op_print", "print", 1, FALSE, <<Param("v", "str")>>),
    defop("op_input", "input", 1, FALSE, <<ParamD("prompt", "str", StrV(<<>>))>>),
    defop("op_inspect_op", "inspect", 1, TRUE,
          <<Param("aipl", "AIPLInterpreter"), Param("op_name", "str")>>),
    defop("op_join", "join", 2, FALSE,
          <<Param("l", "list[str]"), ParamD("sep", "", StrV(<<" ">>))>>),
    defop("op_split", "split", 2, FALSE,
          <<Param("s", "str"), ParamD("sep", "", StrV(<<" ">>))>>),
    defop("op_sum", "sum", 1, FALSE, <<Param("l", "list[int|float]")>>),
    defop("op_int", "int", 1, FALSE, <<Param("v", "Any")>>),
    defop("op_float", "float", 1, FALSE, <<Param("v", "Any")>>),
    defop("op_format", "format", 2, FALSE, <<Param("fmt", "str"), Param("v", "Any")>>),
    defop("op_add", "add", 2, FALSE, <<Param("a", "Any"), Param("b", "Any")>>),
    defop("op_map_int", "map_int", 1, FALSE, <<Param("l", "list[Any]")>>),
    defop("op_map", "map", 2, TRUE,
          <<Param("aipl", "AIPLInterpreter"), Param("op", "str"), Param("l", "list[Any]")>>) >>

\* self.operators after register_operators: the last function registered under a name
register_operators ==
    [n \in {Globals[i].aipl_name : i \in 1..Len(Globals)} |->
        Globals[CHOOSE i \in 1..Len(Globals) :
            /\ Globals[i].aipl_name = n
            /\ \A j \in (i + 1)..Len(Globals) : Globals[j].aipl_name # n]]

operators == register_operators

\* self.operators.get(op_name): names are single word atoms
Registered(op_name) == Len(op_name) = 1 /\ op_name[1] \in DOMAIN operators

\* the annotations of the function, `return` and `self` left out
get_arg_types(func) ==
    LET annotated == SelectSeq(func.params, LAMBDA p : p.hint # "" /\ p.name # "self")
    IN [i \in 1..Len(annotated) |-> annotated[i].hint]

\* arg_type.__origin__ when the hint is a parameterised generic
BaseType(hint) ==
    IF hint \in {"list[str]", "list[int|float]", "list[Any]"} THEN "list" ELSE hint

\* isinstance(v, base) for the classes the hints name
IsInstance(v, base) ==
    CASE base = "str" -> v.tag = "str"
      [] base = "list" -> v.tag = "list"
      [] base = "AIPLInterpreter" -> v.tag = "interp"
      [] OTHER -> FALSE

(***************************************************************************)
(* Calling an implementation                                               *)
(***************************************************************************)
NRequired(func) == Cardinality({i \in 1..Len(func.params) : ~func.params[i].has_default})

\* the positional arguments with the defaults of the parameters left over
WithDefaults(func, actual) ==
    [i \in 1..Len(func.params) |->
        IF i <= Len(actual) THEN actual[i] ELSE func.params[i].default]

Body(self, func, a) ==
    CASE func.func = "op_print" -> op_print(a[1])
      [] func.func = "op_input" -> op_input(a[1], self.stdin)
      [] func.func = "op_inspect_op" -> op_inspect_op(a[1], a[2])
      [] func.func = "op_join" -> op_join(a[1], a[2])
      [] func.func = "op_split" -> op_split(a[1], a[2])
      [] func.func = "op_sum" -> op_sum(a[1])
      [] func.func = "op_int" -> op_int(a[1])
      [] func.func = "op_float" -> op_float(a[1])
      [] func.func = "op_format" -> op_format(a[1], a[2])
      [] func.func = "op_add" -> op_add(a[1], a[2])
      [] func.func = "op_map_int" -> op_map_int(a[1])
      [] func.func = "op_map" -> op_map(a[1], a[2], a[3])

InvokeEv(op, args) == [ev |-> "invoke", op |-> op, args |-> args]

\* func(*actual): Python binds the positional arguments, then runs the body.
\* The log records the invocation when the body is entered.
Invoke(self, func, actual) ==
    IF Len(actual) < NRequired(func) \/ Len(actual) > Len(func.params)
    THEN [val |-> TypeError, log |-> <<>>]
    ELSE [val |-> Body(self, func, WithDefaults(func, actual)),
          log |-> <<InvokeEv(func.aipl_name, actual)>>]

(***************************************************************************)
(* Argument maps: Python dicts keep insertion order; assigning an existing *)
(* key keeps its place                                                     *)
(***************************************************************************)
StrKey(s) == [k |-> "str", s |-> s]

IntKey(i) == [k |-> "int", i |-> i]

HasKey(args, key) == \E i \in 1..Len(args) : args[i].key = key

DictSet(args, key, val) ==
    IF HasKey(args, key)
    THEN [i \in 1..Len(args) |-> IF args[i].key = key THEN [key |-> key, val |-> val] ELSE args[i]]
    ELSE Append(args, [key |-> key, val |-> val])

\* list(args.values())
Values(args) == [i \in 1..Len(args) |-> args[i].val]

(***************************************************************************)
(* Command parser                                                          *)
(***************************************************************************)
InvalidRef(value) == Err("ValueError", "Invalid result reference", value)

\* self.results[index] with Python's negative indices
parse_number_or_str(self, value) ==
    IF startswith(value, "$")
    THEN IF ~IsIntText(Tail(value)) THEN InvalidRef(value)
         ELSE LET index == IntOfText(Tail(value))
                  n == Len(self.results)
              IN IF index >= 0 /\ index < n THEN self.results[index + 1]
                 ELSE IF index < 0 /\ index >= 0 - n THEN self.results[n + index + 1]
                 ELSE InvalidRef(value)
    ELSE IF IsIntText(value) THEN IntV(IntOfText(value))
    ELSE IF IsFloatText(value) THEN FloatV(FloatOfText(value))
    ELSE IF startswith(value, "\"") /\ endswith(value, "\"") THEN StrV(Inner(value))
    ELSE Err("ValueError", "Unquoted string", value)

\* the end of the value matched at p by (?:\[[^\]]*\])|(?:\"[^\"]*\")|\S+ ; 0: no match
ValueEnd(s, p) ==
    IF p > Len(s) THEN 0
    ELSE IF s[p] = "[" /\ IndexOf(s, p + 1, "]") # 0 THEN IndexOf(s, p + 1, "]")
    ELSE IF s[p] = "\"" /\ IndexOf(s, p + 1, "\"") # 0 THEN IndexOf(s, p + 1, "\"")
    ELSE IF IsSpace(s[p]) THEN 0
    ELSE NonSpaceRunEnd(s, p)

\* re.findall(r"(\w+)=(value)", s) from index i: the (key, value) texts, left to right
RECURSIVE FindAll(_, _)
FindAll(s, i) ==
    IF i > Len(s) THEN <<>>
    ELSE IF ~IsWord(s[i]) THEN FindAll(s, i + 1)
    ELSE LET j == WordRunEnd(s, i)
             e == IF j + 1 <= Len(s) /\ s[j + 1] = "=" THEN ValueEnd(s, j + 2) ELSE 0
         IN IF e = 0 THEN FindAll(s, i + 1)
            ELSE <<[k |-> SubSeq(s, i, j), v |-> SubSeq(s, j + 2, e)]>> \o FindAll(s, e + 1)

\* one value of parse_args
ParseArgValue(self, v) ==
    IF startswith(v, "[") /\ endswith(v, "]")
    THEN LET xs == split(Inner(v), <<",">>)
         IN FirstErr([i \in 1..Len(xs) |-> parse_number_or_str(self, strip(xs[i]))])
    ELSE IF startswith(v, "\"") /\ endswith(v, "\"") THEN StrV(Inner(v))
    ELSE parse_number_or_str(self, v)

\* args[k] = v for each pair in order; the first value that raises ends the loop
RECURSIVE FillArgs(_, _, _)
FillArgs(self, pairs, args) ==
    IF pairs = <<>> THEN [val |-> None, args |-> args]
    ELSE LetIn(ParseArgValue(self, Head(pairs).v), LAMBDA v :
            IF IsErr(v) THEN [val |-> v, args |-> args]
            ELSE FillArgs(self, Tail(pairs), DictSet(args, StrKey(Head(pairs).k), v)))

parse_args(self, arg_line) == FillArgs(self, FindAll(arg_line, 1), <<>>)

\* dict(zip(arg_names, arg_values)) of the positional branch
RECURSIVE ZipArgs(_, _, _)
ZipArgs(vals, i, args) ==
    IF i > Len(vals) THEN args
    ELSE ZipArgs(vals, i + 1, DictSet(args, StrKey(IntText(i - 1)), vals[i]))

\* val: the exception raised, None when the command parsed
parse_command(self, cmd) ==
    LET parts == split_max1(cmd)
    IN IF parts = <<>>
       THEN [val |-> Err("IndexError", "list index out of range", <<>>), op |-> <<>>, args |-> <<>>]
       ELSE LET cmd_name == parts[1]
                arg_line == IF Len(parts) > 1 THEN parts[2] ELSE <<>>
            IN IF IndexOf(arg_line, 1, "=") = 0
               THEN LetIn(split_ws(arg_line), LAMBDA words :
                    LetIn(FirstErr([i \in 1..Len(words) |->
                              parse_number_or_str(self, words[i])]), LAMBDA arg_values :
                       IF IsErr(arg_values)
                       THEN [val |-> arg_values, op |-> cmd_name, args |-> <<>>]
                       ELSE [val |-> None, op |-> cmd_name,
                             args |-> ZipArgs(arg_values.l, 1, <<>>)]))
               ELSE LetIn(parse_args(self, arg_line), LAMBDA r :
                       [val |-> r.val, op |-> cmd_name, args |-> r.args])

(***************************************************************************)
(* Argument resolver                                                       *)
(***************************************************************************)
\* the loop that matches `result` to a parameter type: isinstance is evaluated
\* first and raises TypeError for typing.Any; the first match is stored under
\* the integer key i and ends the loop
RECURSIVE InjectScan(_, _, _, _)
InjectScan(arg_types, i, args, result) ==
    IF i >= Len(arg_types) THEN [val |-> None, args |-> args]
    ELSE LET base_type == BaseType(arg_types[i + 1])
         IN IF base_type = "Any" THEN [val |-> TypeError, args |-> args]
            ELSE IF IsInstance(result, base_type) /\ ~HasKey(args, IntKey(i))
                 THEN [val |-> None, args |-> DictSet(args, IntKey(i), result)]
                 ELSE InjectScan(arg_types, i + 1, args, result)

\* the condition under which the matching loop is entered
InjectGuard(op, arity, args, result) ==
    /\ Falsy(result)
    /\ Len(args) < arity
    /\ ~(op.aipl_needs_interpreter /\ Len(args) = arity - 1)

\* the arity the resolver compares against
ResolverArity(op) == Len(get_arg_types(op))

\* a lookup failure that yields None instead of raising
UnknownOperator_none(op_name) == None

\* raise ValueError(f"Unknown operator: {op_name}")
UnknownOperator(op_name) == Err("ValueError", "Unknown operator", op_name)

ApplyEv(op_name, explicit, args, result, ret, invoked) ==
    [ev |-> "apply", op |-> op_name, explicit |-> explicit, args |-> args,
     result |-> result, ret |-> ret, invoked |-> invoked]

\* the positional arguments of the call: list(args.values()), the interpreter first
\* when the operator needs it
BoundArgs(op, args) ==
    IF op.aipl_needs_interpreter THEN <<Interp>> \o Values(args) ELSE Values(args)

\* val: the value returned (a Partial for a deferred call) or the exception raised;
\* args: the argument dict, which the call mutates; log: the events of the call
apply_operator(self, op_name, args, result) ==
    IF ~Registered(op_name)
    THEN [val |-> UnknownOperator(op_name), args |-> args,
          log |-> <<ApplyEv(op_name, args, args, result, UnknownOperator(op_name), FALSE)>>]
    ELSE LetIn(operators[op_name[1]], LAMBDA op :
         LetIn(ResolverArity(op), LAMBDA arity :
         LetIn(IF InjectGuard(op, arity, args, result)
               THEN InjectScan(get_arg_types(op), 0, args, result)
               ELSE [val |-> None, args |-> args], LAMBDA inj :
            IF IsErr(inj.val)
            THEN [val |-> inj.val, args |-> inj.args,
                  log |-> <<ApplyEv(op_name, args, inj.args, result, inj.val, FALSE)>>]
            ELSE IF arity > Len(inj.args)
            THEN LetIn(Partial(op.aipl_name, BoundArgs(op, inj.args)), LAMBDA p :
                    [val |-> p, args |-> inj.args,
                     log |-> <<ApplyEv(op_name, args, inj.args, result, p, FALSE)>>])
            ELSE LetIn(Invoke(self, op, BoundArgs(op, inj.args)), LAMBDA r :
                    [val |-> r.val, args |-> inj.args,
                     log |-> <<ApplyEv(op_name, args, inj.args, result, r.val,
                                       r.log # <<>>)>> \o r.log]))))

(***************************************************************************)
(* Execution engine                                                        *)
(***************************************************************************)
\* callable(v): operators return plain values, so only a partial is callable
callable(v) == v.tag = "partial"

\* partial_op(*more)
CallPartial(self, partial_op, more) ==
    Invoke(self, operators[partial_op.op], partial_op.bound \o more)

\* composed(x) with composed = lambda x, f=partial_op, g=composed: f(g(x)),
\* the stages listed in the order they were composed
RECURSIVE CallComposed(_, _, _, _)
CallComposed(self, stages, x, log) ==
    IF stages = <<>> THEN [val |-> x, log |-> log]
    ELSE IF ~callable(Head(stages)) THEN [val |-> TypeError, log |-> log]
    ELSE LetIn(CallPartial(self, Head(stages), <<x>>), LAMBDA r :
            IF IsErr(r.val) THEN [val |-> r.val, log |-> log \o r.log]
            ELSE CallComposed(self, Tail(stages), r.val, log \o r.log))

\* where in the line the evaluation ended: segment number and step
Where(r, seg, step) == [val |-> r.val, log |-> r.log, seg |-> seg, step |-> step]

\* a forcing that always passes the result to the deferred call
ForceLast_always_result(self, partial_op, args, result) ==
    IF callable(partial_op) THEN CallPartial(self, partial_op, <<result>>)
    ELSE [val |-> partial_op, log |-> <<>>]

\* the value the last segment of the pipeline yields
ForceLast(self, partial_op, args, result) ==
    IF callable(partial_op)
    THEN LET arity == operators[partial_op.op].aipl_arity
         IN IF arity = Len(args) THEN CallPartial(self, partial_op, <<>>)
            ELSE CallPartial(self, partial_op, <<result>>)
    ELSE [val |-> partial_op, log |-> <<>>]

\* the body of `for i, cmd in enumerate(cmds)` from segment i (1-based) on
RECURSIVE CommandLoop(_, _, _, _, _, _)
CommandLoop(self, cmds, i, result, composed, log) ==
    IF i > Len(cmds)
    THEN Where(CallComposed(self, composed, result, log), i, "compose")
    ELSE LetIn(parse_command(self, strip(cmds[i])), LAMBDA pc :
            IF IsErr(pc.val) THEN Where([val |-> pc.val, log |-> log], i, "parse")
            ELSE LetIn(apply_operator(self, pc.op, pc.args, result), LAMBDA ap :
               IF IsErr(ap.val) THEN Where([val |-> ap.val, log |-> log \o ap.log], i, "apply")
               ELSE IF i = Len(cmds)
                    THEN LetIn(ForceLast(self, ap.val, ap.args, result), LAMBDA f :
                            Where([val |-> f.val, log |-> log \o ap.log \o f.log], i, "force"))
               ELSE IF ap.val = None
                    THEN CommandLoop(self, cmds, i + 1, result, composed, log \o ap.log)
               ELSE CommandLoop(self, cmds, i + 1, result, Append(composed, ap.val),
                                log \o ap.log)))

\* a passthrough that forgets the history
LastResult_none(self) == None

\* self.results[-1] if self.results else None
LastResult(self) ==
    IF self.results # <<>> THEN self.results[Len(self.results)] ELSE None

process_commands(self, line) ==
    LET cmds == split(Tail(line), <<"|>">>)
        result == LastResult(self)
    IN CommandLoop(self, cmds, 1, result, <<>>, <<>>)

process_line(self, text) ==
    LET line == strip(text)
    IN IF line = <<>> \/ startswith(line, "#")
       THEN [val |-> LastResult(self), log |-> <<>>, seg |-> 0, step |-> "blank"]
       ELSE IF startswith(line, "!") THEN process_commands(self, line)
       ELSE [val |-> StrV(line), log |-> <<>>, seg |-> 0, step |-> "literal"]

(***************************************************************************)
(* Scripts                                                                 *)
(***************************************************************************)
MaxLines == 3

L_blank == <<>>
L_comment == <<" ", "#", " ", "c">>
L_lit5 == <<"5">>
L_litab == <<" ", "a", " ", "b", " ">>
L_query == <<"?", "print">>
L_print == <<"!", "print">>
L_split == <<" ", "!", "split">>
L_join_sep == <<"!", "join", " ", "sep", "=", "\"", "-", "\"">>
L_join_full == <<"!", "join", " ", "v", "=", "[", "\"", "a", "\"", ",", "\"", "b", "\"", "]",
                 " ", "sep", "=", "\"", "-", "\"">>
L_join_v == <<"!", "join", " ", "v", "=", "[", "\"", "a", "\"", ",", "\"", "b", "\"", "]">>
L_format == <<"!", "format", " ", "fmt", "=", "\"", "n", "=", "{}", "\"">>
L_frob == <<"!", "frob">>
L_frob_ref == <<"!", "frob", " ", "$", "9">>
L_ref0 == <<"!", "print", " ", "$", "0">>
L_ref_mixed == <<"!", "join", " ", "sep", "=", "\"", "-", "\"", " ", "$", "1">>
L_ref_named == <<"!", "add", " ", "a", "=", "\"", "x", "\"", " ", "b", "=", "$", "1">>
L_pipe3 == <<"!", "int", " ", "|>", " ", "float", " ", "|>", " ", "print">>
L_pipe_unk == <<"!", "print", " ", "|>", " ", "frob", " ", "|>", " ", "nope">>
L_empty_str == <<"!", "print", " ", "\"", "\"">>
L_int0 == <<"!", "int", " ", "0">>
L_sum == <<"!", "sum">>
L_inspect == <<"!", "inspect", " ", "\"", "print", "\"">>
L_input == <<"!", "input">>
L_format_vf == <<"!", "format", " ", "v", "=", "5", " ", "fmt", "=", "\"", "n", "=", "{}", "\"">>
L_format_fv == <<"!", "format", " ", "fmt", "=", "\"", "n", "=", "{}", "\"", " ", "v", "=", "5">>
L_print_12 == <<"!", "print", " ", "1", " ", "2">>

Lines == {L_blank, L_comment, L_lit5, L_litab, L_query, L_print, L_split, L_join_sep,
          L_join_full, L_join_v, L_format, L_frob, L_frob_ref, L_ref0, L_ref_mixed,
          L_ref_named, L_pipe3, L_pipe_unk, L_empty_str, L_int0, L_sum, L_inspect,
          L_input, L_format_vf, L_format_fv, L_print_12}

\* the script texts: n lines of the set joined by newlines, for n up to MaxLines
Scripts(lines, n) == {JoinText(<<"\n">>, ls) : ls \in [1..n -> lines]}

\* the lines a user may type at the prompt of !input
StdinLines == {<<"5">>, <<"a", " ", "b">>}

(***************************************************************************)
(* State                                                                   *)
(***************************************************************************)
VARIABLES
    script,     \* self.script: "" after construction, the list of lines during a run
    results,    \* self.results
    pc,         \* "idle", "loop" (inside process_script), "returned", "raised"
    idx,        \* the number of loop iterations of process_script completed
    ret,        \* the value process_script returned or the exception it raised
    trace,      \* what process_line did on each line evaluated so far
    registry,   \* self.operators as the registration steps build it
    pl_result,  \* the local `result` of process_script in src/pl.py
    input_history   \* the local `input_history` of repl in src/brier.py

vars == <<script, results, pc, idx, ret, trace, registry, pl_result, input_history>>

\* AIPLInterpreter.__init__
Init ==
    /\ script = <<>>
    /\ results = <<>>
    /\ pc = "idle"
    /\ idx = 0
    /\ ret = None
    /\ trace = <<>>
    /\ registry = operators
    /\ pl_result = None
    /\ input_history = <<>>

\* the interpreter object as the methods see it: its history, and the line waiting
\* on standard input
Self(inp) == [results |-> results, stdin |-> inp]

\* the record kept of one evaluated line: what process_line returned or raised, the
\* events of the evaluation, where it ended, and the line it read from standard input
Traced(r, inp) ==
    [val |-> r.val, log |-> r.log, seg |-> r.seg, step |-> r.step,
     stdin |-> IF \E i \in 1..Len(r.log) : r.log[i].ev = "invoke" /\ r.log[i].op = "input"
               THEN inp ELSE <<>>]

\* a history whose append overwrites the newest entry once there is one
results_append_overwrite(rs, result) ==
    IF rs = <<>> THEN <<result>> ELSE [rs EXCEPT ![Len(rs)] = result]

\* self.results.append(result)
results_append(rs, result) == Append(rs, result)

\* a loop that swallows the exception and goes on with the next line
Propagate_continue(i) == [pc |-> "loop", idx |-> i + 1]

\* an exception raised inside the for loop leaves process_script: nothing catches it
Propagate(i) == [pc |-> "raised", idx |-> i]

\* self.script = script.split("\n"), entering the loop
process_script_call ==
    /\ pc = "idle"
    /\ \E n \in 1..MaxLines : \E s \in Scripts(Lines, n) : script' = split(s, <<"\n">>)
    /\ pc' = "loop"
    /\ UNCHANGED <<results, idx, ret, trace, registry, pl_result, input_history>>

\* one iteration: result = self.process_line(line); self.results.append(result)
process_script_line ==
    /\ pc = "loop"
    /\ idx < Len(script)
    /\ \E inp \in StdinLines :
          LetIn(process_line(Self(inp), script[idx + 1]), LAMBDA r :
             /\ ~IsErr(r.val)
             /\ results' = results_append(results, r.val)
             /\ trace' = Append(trace, Traced(r, inp)))
    /\ idx' = idx + 1
    /\ UNCHANGED <<script, pc, ret, registry, pl_result, input_history>>

\* one iteration in which process_line raises
process_script_raise ==
    /\ pc = "loop"
    /\ idx < Len(script)
    /\ \E inp \in StdinLines :
          LetIn(process_line(Self(inp), script[idx + 1]), LAMBDA r :
             /\ IsErr(r.val)
             /\ ret' = r.val
             /\ trace' = Append(trace, Traced(r, inp)))
    /\ pc' = Propagate(idx).pc
    /\ idx' = Propagate(idx).idx
    /\ UNCHANGED <<script, results, registry, pl_result, input_history>>

\* return self.results[-1]
process_script_return ==
    /\ pc = "loop"
    /\ idx = Len(script)
    /\ ret' = results[Len(results)]
    /\ pc' = "returned"
    /\ UNCHANGED <<script, results, idx, trace, registry, pl_result, input_history>>

Next ==
    \/ process_script_call
    \/ process_script_line
    \/ process_script_raise
    \/ process_script_return

Spec == Init /\ [][Next]_vars

(***************************************************************************)
(* Operator registration, one assignment at a time: the loop body of       *)
(* register_operators (src/interpreter.py) and the decorator of            *)
(* AIPLInterpreter.defop (src/ret.py)                                      *)
(***************************************************************************)
MaxRegs == 3

\* the names and the functions offered for registration
RegNames == {"print", "int"}

RegFuncs == {"op_a", "op_b", "op_c"}

\* self.operators: Dict[str, Callable] = {}
EmptyRegistry == [n \in {} |-> ""]

\* self.operators[name] = func
registry_assign(reg, name, func) ==
    [n \in DOMAIN reg \cup {name} |-> IF n = name THEN func ELSE reg[n]]

Registration(name, func) == [ev |-> "register", name |-> name, func |-> func]

InitReg ==
    /\ script = <<>>
    /\ results = <<>>
    /\ pc \in {"register_operators", "defop"}
    /\ idx = 0
    /\ ret = None
    /\ trace = <<>>
    /\ registry = EmptyRegistry
    /\ pl_result = None
    /\ input_history = <<>>

\* src/interpreter.py: one iteration of `for name, obj in globals().items()` on an
\* object that has aipl_name
register_operators_iter ==
    /\ pc = "register_operators"
    /\ Len(trace) < MaxRegs
    /\ \E name \in RegNames, func \in RegFuncs :
          /\ registry' = registry_assign(registry, name, func)
          /\ trace' = Append(trace, Registration(name, func))
    /\ UNCHANGED <<script, results, pc, idx, ret, pl_result, input_history>>

\* src/ret.py: @aipl.defop(name, ...) applied to func
ret_defop ==
    /\ pc = "defop"
    /\ Len(trace) < MaxRegs
    /\ \E name \in RegNames, func \in RegFuncs :
          /\ registry' = registry_assign(registry, name, func)
          /\ trace' = Append(trace, Registration(name, func))
    /\ UNCHANGED <<script, results, pc, idx, ret, pl_result, input_history>>

NextReg ==
    \/ register_operators_iter
    \/ ret_defop

SpecReg == InitReg /\ [][NextReg]_vars

(***************************************************************************)
(* The src/pl.py variant: keyword arguments, no history; process_script    *)
(* threads a local `result` from line to line                              *)
(***************************************************************************)
\* the bare token's value in `(a, True)`
PyTrue == [tag |-> "bool"]

\* the decorated functions of src/pl.py (the aipl parameter left out)
pl_Globals == <<
    defop("op_join", "join", 1, FALSE, <<Param("v", "List[str]"), ParamD("sep", "", StrV(<<" ">>))>>),
    defop("op_split", "split", 1, FALSE, <<Param("v", "str"), ParamD("sep", "", StrV(<<" ">>))>>),
    defop("op_print", "print", 1, FALSE, <<Param("v", "str")>>) >>

pl_operators ==
    [n \in {pl_Globals[i].aipl_name : i \in 1..Len(pl_Globals)} |->
        pl_Globals[CHOOSE i \in 1..Len(pl_Globals) : pl_Globals[i].aipl_name = n]]

\* str.strip('"')
RECURSIVE strip_quotes(_)
strip_quotes(t) ==
    IF t # <<>> /\ Head(t) = "\"" THEN strip_quotes(Tail(t))
    ELSE IF t # <<>> /\ t[Len(t)] = "\"" THEN strip_quotes(SubSeq(t, 1, Len(t) - 1))
    ELSE t

\* the value stored for one part `a` of the argument text: a.split("=", 1), then a
\* bracketed value becomes the list of its stripped items; a bare part is paired
\* with True, on which v.startswith raises
pl_ArgValue(a) ==
    IF IndexOf(a, 1, "=") = 0 THEN AttributeError
    ELSE LetIn(SubSeq(a, IndexOf(a, 1, "=") + 1, Len(a)), LAMBDA v :
            IF startswith(v, "[") /\ endswith(v, "]")
            THEN ListV([i \in 1..Len(split(Inner(v), <<",">>)) |->
                          StrV(strip_quotes(strip(split(Inner(v), <<",">>)[i])))])
            ELSE StrV(v))

pl_ArgKey(a) == SubSeq(a, 1, IndexOf(a, 1, "=") - 1)

RECURSIVE pl_FillArgs(_, _)
pl_FillArgs(parts, args) ==
    IF parts = <<>> THEN [val |-> None, args |-> args]
    ELSE LetIn(pl_ArgValue(Head(parts)), LAMBDA v :
            IF IsErr(v) THEN [val |-> v, args |-> args]
            ELSE pl_FillArgs(Tail(parts), DictSet(args, StrKey(pl_ArgKey(Head(parts))), v)))

\* re.split on the blank runs outside brackets (no script line here holds a blank
\* inside brackets), empty parts skipped
pl_parse_args(arg_line) == pl_FillArgs(split_ws(arg_line), <<>>)

\* the value bound to the parameter, its default when no keyword names it
pl_Bound(kwargs, p) ==
    IF HasKey(kwargs, StrKey(<<p.name>>))
    THEN kwargs[CHOOSE i \in 1..Len(kwargs) : kwargs[i].key = StrKey(<<p.name>>)].val
    ELSE p.default

\* op(self, **kwargs): a keyword no parameter has, or a required parameter without
\* keyword, raises TypeError
pl_call_operator(op_name, kwargs) ==
    IF Len(op_name) # 1 \/ op_name[1] \notin DOMAIN pl_operators
    THEN UnknownOperator(op_name)
    ELSE LetIn(pl_operators[op_name[1]], LAMBDA op :
            IF \/ \E i \in 1..Len(kwargs) :
                     \A j \in 1..Len(op.params) : kwargs[i].key # StrKey(<<op.params[j].name>>)
               \/ \E j \in 1..Len(op.params) :
                     ~op.params[j].has_default /\ ~HasKey(kwargs, StrKey(<<op.params[j].name>>))
            THEN TypeError
            ELSE CASE op.func = "op_join" ->
                        op_join(pl_Bound(kwargs, op.params[1]), pl_Bound(kwargs, op.params[2]))
                   [] op.func = "op_split" ->
                        op_split(pl_Bound(kwargs, op.params[1]), pl_Bound(kwargs, op.params[2]))
                   [] op.func = "op_print" -> op_print(pl_Bound(kwargs, op.params[1])))

\* args['v'] = prev_result when no v was written and there is a previous result
pl_InjectPrev(args, prev_result) ==
    IF ~HasKey(args, StrKey(<<"v">>)) /\ prev_result # None
    THEN DictSet(args, StrKey(<<"v">>), prev_result)
    ELSE args

\* return None
pl_Blank(prev_result) == None

\* val: the value returned or the exception raised; kwargs: what the operator was
\* called with
pl_process_line(text, prev_result) ==
    LetIn(strip(text), LAMBDA line :
        IF line = <<>> \/ startswith(line, "#")
        THEN [val |-> pl_Blank(prev_result), step |-> "blank", kwargs |-> <<>>]
        ELSE IF startswith(line, "!")
        THEN LetIn(split_max1(Tail(line)), LAMBDA parts :
                IF parts = <<>>
                THEN [val |-> Err("IndexError", "list index out of range", <<>>),
                      step |-> "parse", kwargs |-> <<>>]
                ELSE LetIn(pl_parse_args(IF Len(parts) > 1 THEN parts[2] ELSE <<>>),
                           LAMBDA pa :
                        IF IsErr(pa.val)
                        THEN [val |-> pa.val, step |-> "parse", kwargs |-> <<>>]
                        ELSE LetIn(pl_InjectPrev(pa.args, prev_result), LAMBDA args :
                                [val |-> pl_call_operator(parts[1], args),
                                 step |-> "call", kwargs |-> args])))
        ELSE [val |-> StrV(line), step |-> "literal", kwargs |-> <<>>])

L_pl_join_sep == <<"!", "join", " ", "sep", "=", "-">>
L_pl_print_v == <<"!", "print", " ", "v", "=", "x">>
L_pl_join_list == <<"!", "join", " ", "v", "=", "[", "a", ",", "\"", "b", "\"", "]">>

pl_Lines == {L_blank, L_comment, L_lit5, L_litab, L_print, L_split, L_frob, L_print_12,
             L_pl_join_sep, L_pl_print_v, L_pl_join_list}

\* what the loop recorded of one line: the previous result it was given and what
\* process_line did with it
pl_Traced(r, prev_result) ==
    [val |-> r.val, step |-> r.step, kwargs |-> r.kwargs, prev |-> prev_result]

InitPl ==
    /\ script = <<>>
    /\ results = <<>>
    /\ pc = "idle"
    /\ idx = 0
    /\ ret = None
    /\ trace = <<>>
    /\ registry = pl_operators
    /\ pl_result = None
    /\ input_history = <<>>

\* lines = script.split("\n"); result = None
pl_process_script_call ==
    /\ pc = "idle"
    /\ \E n \in 1..MaxLines : \E s \in Scripts(pl_Lines, n) : script' = split(s, <<"\n">>)
    /\ pl_result' = None
    /\ pc' = "loop"
    /\ UNCHANGED <<results, idx, ret, trace, registry, input_history>>

\* one iteration: result = self.process_line(line, result)
pl_process_script_line ==
    /\ pc = "loop"
    /\ idx < Len(script)
    /\ LetIn(pl_process_line(script[idx + 1], pl_result), LAMBDA r :
          /\ ~IsErr(r.val)
          /\ pl_result' = r.val
          /\ trace' = Append(trace, pl_Traced(r, pl_result)))
    /\ idx' = idx + 1
    /\ UNCHANGED <<script, results, pc, ret, registry, input_history>>

\* one iteration in which process_line raises: the exception leaves process_script
pl_process_script_raise ==
    /\ pc = "loop"
    /\ idx < Len(script)
    /\ LetIn(pl_process_line(script[idx + 1], pl_result), LAMBDA r :
          /\ IsErr(r.val)
          /\ ret' = r.val
          /\ trace' = Append(trace, pl_Traced(r, pl_result)))
    /\ pc' = "raised"
    /\ UNCHANGED <<script, results, idx, registry, pl_result, input_history>>

\* return result
pl_process_script_return ==
    /\ pc = "loop"
    /\ idx = Len(script)
    /\ ret' = pl_result
    /\ pc' = "returned"
    /\ UNCHANGED <<script, results, idx, trace, registry, pl_result, input_history>>

NextPl ==
    \/ pl_process_script_call
    \/ pl_process_script_line
    \/ pl_process_script_raise
    \/ pl_process_script_return

SpecPl == InitPl /\ [][NextPl]_vars

(***************************************************************************)
(* The src/backup2.py variant: named arguments only, injection under the   *)
(* key "v", three operators                                                *)
(***************************************************************************)
backup2_Globals == <<
    defop("op_print", "print", 1, FALSE, <<Param("v", "str")>>),
    defop("op_input", "input", 1, FALSE, <<ParamD("prompt", "str", StrV(<<>>))>>),
    defop("op_inspect_op", "inspect", 1, TRUE,
          <<Param("aipl", "AIPLInterpreter"), Param("op_name", "str")>>) >>

backup2_operators ==
    [n \in {backup2_Globals[i].aipl_name : i \in 1..Len(backup2_Globals)} |->
        backup2_Globals[CHOOSE i \in 1..Len(backup2_Globals) :
                            backup2_Globals[i].aipl_name = n]]

\* 0 < index < len(self.results)
backup2_InRange(index, n) == 0 < index /\ index < n

\* `$` followed by digits is a reference, resolved only inside the range; any
\* other text goes on to the number and string parsing
backup2_parse_number_or_str(self, value) ==
    IF startswith(value, "$") /\ Tail(value) # <<>> /\ AllDigits(Tail(value))
    THEN IF backup2_InRange(DecVal(Tail(value)), Len(self.results))
         THEN self.results[DecVal(Tail(value)) + 1]
         ELSE InvalidRef(value)
    ELSE IF IsIntText(value) THEN IntV(IntOfText(value))
    ELSE IF IsFloatText(value) THEN FloatV(FloatOfText(value))
    ELSE IF startswith(value, "\"") /\ endswith(value, "\"") THEN StrV(Inner(value))
    ELSE Err("ValueError", "Unquoted string", value)

backup2_ParseArgValue(self, v) ==
    IF startswith(v, "[") /\ endswith(v, "]")
    THEN LET xs == split(Inner(v), <<",">>)
         IN FirstErr([i \in 1..Len(xs) |-> backup2_parse_number_or_str(self, strip(xs[i]))])
    ELSE IF startswith(v, "\"") /\ endswith(v, "\"") THEN StrV(Inner(v))
    ELSE backup2_parse_number_or_str(self, v)

RECURSIVE backup2_FillArgs(_, _, _)
backup2_FillArgs(self, pairs, args) ==
    IF pairs = <<>> THEN [val |-> None, args |-> args]
    ELSE LetIn(backup2_ParseArgValue(self, Head(pairs).v), LAMBDA v :
            IF IsErr(v) THEN [val |-> v, args |-> args]
            ELSE backup2_FillArgs(self, Tail(pairs), DictSet(args, StrKey(Head(pairs).k), v)))

backup2_parse_args(self, arg_line) == backup2_FillArgs(self, FindAll(arg_line, 1), <<>>)

\* every argument text goes through parse_args
backup2_parse_command(self, cmd) ==
    LetIn(split_max1(cmd), LAMBDA parts :
        IF parts = <<>>
        THEN [val |-> Err("IndexError", "list index out of range", <<>>), op |-> <<>>, args |-> <<>>]
        ELSE LetIn(backup2_parse_args(self, IF Len(parts) > 1 THEN parts[2] ELSE <<>>),
                   LAMBDA r : [val |-> r.val, op |-> parts[1], args |-> r.args]))

\* args["v"] = result when v is absent, there is a result and one argument is missing
backup2_InjectV(op, args, result) ==
    IF ~HasKey(args, StrKey(<<"v">>)) /\ result # None /\ op.aipl_arity = Len(args) + 1
    THEN DictSet(args, StrKey(<<"v">>), result)
    ELSE args

backup2_apply_operator(self, op_name, args, result) ==
    IF Len(op_name) # 1 \/ op_name[1] \notin DOMAIN backup2_operators
    THEN [val |-> UnknownOperator(op_name), args |-> args,
          log |-> <<ApplyEv(op_name, args, args, result, UnknownOperator(op_name), FALSE)>>]
    ELSE LetIn(backup2_operators[op_name[1]], LAMBDA op :
         LetIn(backup2_InjectV(op, args, result), LAMBDA a :
            IF op.aipl_arity > Len(a)
            THEN LetIn(Partial(op.aipl_name, BoundArgs(op, a)), LAMBDA p :
                    [val |-> p, args |-> a,
                     log |-> <<ApplyEv(op_name, args, a, result, p, FALSE)>>])
            ELSE LetIn(Invoke(self, op, BoundArgs(op, a)), LAMBDA r :
                    [val |-> r.val, args |-> a,
                     log |-> <<ApplyEv(op_name, args, a, result, r.val, r.log # <<>>)>>
                             \o r.log])))

\* partial_op(result) if callable(partial_op) else partial_op
backup2_ForceLast(self, partial_op, result) ==
    IF callable(partial_op)
    THEN Invoke(self, backup2_operators[partial_op.op], partial_op.bound \o <<result>>)
    ELSE [val |-> partial_op, log |-> <<>>]

\* the loop over the segments; the last one returns
RECURSIVE backup2_CommandLoop(_, _, _, _, _)
backup2_CommandLoop(self, cmds, i, result, log) ==
    LetIn(backup2_parse_command(self, strip(cmds[i])), LAMBDA parsed :
        IF IsErr(parsed.val) THEN Where([val |-> parsed.val, log |-> log], i, "parse")
        ELSE LetIn(backup2_apply_operator(self, parsed.op, parsed.args, result), LAMBDA ap :
           IF IsErr(ap.val) THEN Where([val |-> ap.val, log |-> log \o ap.log], i, "apply")
           ELSE IF i = Len(cmds)
                THEN LetIn(backup2_ForceLast(self, ap.val, result), LAMBDA f :
                        Where([val |-> f.val, log |-> log \o ap.log \o f.log], i, "force"))
           ELSE backup2_CommandLoop(self, cmds, i + 1, result, log \o ap.log)))

backup2_process_commands(self, line) ==
    backup2_CommandLoop(self, split(Tail(line), <<"|>">>), 1, LastResult(self), <<>>)

backup2_process_line(self, text) ==
    LET line == strip(text)
    IN IF line = <<>> \/ startswith(line, "#")
       THEN [val |-> LastResult(self), log |-> <<>>, seg |-> 0, step |-> "blank"]
       ELSE IF startswith(line, "!") THEN backup2_process_commands(self, line)
       ELSE [val |-> StrV(line), log |-> <<>>, seg |-> 0, step |-> "literal"]

L_b2_v0 == <<"!", "print", " ", "v", "=", "$", "0">>
L_b2_v1 == <<"!", "print", " ", "v", "=", "$", "1">>
L_b2_v2 == <<"!", "print", " ", "v", "=", "$", "2">>
L_b2_inspect == <<"!", "inspect">>
L_b2_pipe == <<"!", "frob", " ", "|>", " ", "print">>

backup2_Lines == {L_blank, L_lit5, L_litab, L_print, L_ref0, L_frob, L_input,
                  L_b2_v0, L_b2_v1, L_b2_v2, L_b2_inspect, L_b2_pipe}

InitBackup2 ==
    /\ script = <<>>
    /\ results = <<>>
    /\ pc = "idle"
    /\ idx = 0
    /\ ret = None
    /\ trace = <<>>
    /\ registry = backup2_operators
    /\ pl_result = None
    /\ input_history = <<>>

\* lines = script.split("\n")
backup2_process_script_call ==
    /\ pc = "idle"
    /\ \E n \in 1..MaxLines : \E s \in Scripts(backup2_Lines, n) : script' = split(s, <<"\n">>)
    /\ pc' = "loop"
    /\ UNCHANGED <<results, idx, ret, trace, registry, pl_result, input_history>>

\* one iteration: result = self.process_line(line); self.results.append(result)
backup2_process_script_line ==
    /\ pc = "loop"
    /\ idx < Len(script)
    /\ \E inp \in StdinLines :
          LetIn(backup2_process_line(Self(inp), script[idx + 1]), LAMBDA r :
             /\ ~IsErr(r.val)
             /\ results' = Append(results, r.val)
             /\ trace' = Append(trace, Traced(r, inp)))
    /\ idx' = idx + 1
    /\ UNCHANGED <<script, pc, ret, registry, pl_result, input_history>>

\* one iteration in which process_line raises: the exception leaves process_script
backup2_process_script_raise ==
    /\ pc = "loop"
    /\ idx < Len(script)
    /\ \E inp \in StdinLines :
          LetIn(backup2_process_line(Self(inp), script[idx + 1]), LAMBDA r :
             /\ IsErr(r.val)
             /\ ret' = r.val
             /\ trace' = Append(trace, Traced(r, inp)))
    /\ pc' = "raised"
    /\ UNCHANGED <<script, results, idx, registry, pl_result, input_history>>

\* return self.results[-1]
backup2_process_script_return ==
    /\ pc = "loop"
    /\ idx = Len(script)
    /\ ret' = results[Len(results)]
    /\ pc' = "returned"
    /\ UNCHANGED <<script, results, idx, trace, registry, pl_result, input_history>>

NextBackup2 ==
    \/ backup2_process_script_call
    \/ backup2_process_script_line
    \/ backup2_process_script_raise
    \/ backup2_process_script_return

SpecBackup2 == InitBackup2 /\ [][NextBackup2]_vars

(***************************************************************************)
(* The REPL of src/brier.py around the interpreter of src/interpreter.py   *)
(***************************************************************************)
MaxInputs == 3

\* str.lower() on the letters the typed lines use; every other atom is unchanged
LowerAtom(a) ==
    CASE a = "E" -> "e" [] a = "X" -> "x" [] a = "I" -> "i" [] a = "T" -> "t"
      [] a = "S" -> "s" [] a = "A" -> "a" [] a = "V" -> "v" [] OTHER -> a

lower(s) == [i \in 1..Len(s) |-> LowerAtom(s[i])]

\* s.startswith(prefix) for a text prefix
startswith_text(s, prefix) == Len(s) >= Len(prefix) /\ SubSeq(s, 1, Len(prefix)) = prefix

\* an exit test that knows one spelling only
is_exit_exact(line) == line = <<"e", "x", "i", "t">>

\* line.lower() == "exit"
is_exit(line) == lower(line) = <<"e", "x", "i", "t">>

\* line.lower().startswith("save")
is_save(line) == startswith_text(lower(line), <<"s", "a", "v", "e">>)

\* line.split(maxsplit=1)[-1].strip(): the file name handed to save_history
save_file_name(line) == strip(split_max1(line)[Len(split_max1(line))])

\* what save_history does: a message when the name is empty, else the history is
\* written to the file, or the failure to write is reported
save_history(history, file_name, writable) ==
    IF file_name = <<>> THEN [written |-> FALSE, file |-> file_name, content |-> <<>>]
    ELSE IF writable THEN [written |-> TRUE, file |-> file_name, content |-> history]
    ELSE [written |-> FALSE, file |-> file_name, content |-> <<>>]

R_exit == <<"e", "x", "i", "t">>
R_EXIT == <<"E", "X", "I", "T">>
R_Exit == <<"E", "x", "i", "t">>
R_exit_sp == <<" ", "e", "x", "i", "t">>
R_save_f == <<"s", "a", "v", "e", " ", "f">>
R_Saved == <<"S", "a", "v", "e", "d">>
R_save == <<"s", "a", "v", "e">>

\* the lines a user may type at the prompt
ReplLines == {R_exit, R_EXIT, R_Exit, R_exit_sp, R_save_f, R_Saved, R_save,
              L_blank, L_lit5, L_print, L_frob, L_frob_ref, L_format, L_print_12, L_input}

\* one loop iteration as recorded: the line read (read = FALSE: input() raised
\* EOFError), what process_line returned or what was raised, and what was saved
ReplTraced(read, line, r, inp, saved) ==
    [read |-> read, line |-> line, val |-> r.val, log |-> r.log,
     stdin |-> IF \E i \in 1..Len(r.log) : r.log[i].ev = "invoke" /\ r.log[i].op = "input"
               THEN inp ELSE <<>>,
     saved |-> saved]

NoSave == [written |-> FALSE, file |-> <<>>, content |-> <<>>]

NoLine == [val |-> None, log |-> <<>>]

\* aipl = AIPLInterpreter(); input_history = []
InitRepl ==
    /\ script = <<>>
    /\ results = <<>>
    /\ pc = "repl"
    /\ idx = 0
    /\ ret = None
    /\ trace = <<>>
    /\ registry = operators
    /\ pl_result = None
    /\ input_history = <<>>

\* input("> ") returns a line equal to exit in any case: break
repl_exit ==
    /\ pc = "repl"
    /\ Len(trace) < MaxInputs
    /\ \E line \in ReplLines :
          /\ is_exit(line)
          /\ trace' = Append(trace, ReplTraced(TRUE, line, NoLine, <<>>, NoSave))
    /\ pc' = "exited"
    /\ UNCHANGED <<script, results, idx, ret, registry, pl_result, input_history>>

\* the line starts with save: save_history writes the input history, the line is
\* neither recorded nor evaluated
repl_save ==
    /\ pc = "repl"
    /\ Len(trace) < MaxInputs
    /\ \E line \in ReplLines, writable \in BOOLEAN :
          /\ ~is_exit(line)
          /\ is_save(line)
          /\ trace' = Append(trace, ReplTraced(TRUE, line, NoLine, <<>>,
                          save_history(input_history, save_file_name(line), writable)))
    /\ UNCHANGED <<script, results, pc, idx, ret, registry, pl_result, input_history>>

\* any other line: recorded in input_history, evaluated, its result appended
repl_process ==
    /\ pc = "repl"
    /\ Len(trace) < MaxInputs
    /\ \E line \in ReplLines, inp \in StdinLines :
          /\ ~is_exit(line)
          /\ ~is_save(line)
          /\ LetIn(process_line(Self(inp), line), LAMBDA r :
                /\ ~IsErr(r.val)
                /\ results' = Append(results, r.val)
                /\ trace' = Append(trace, ReplTraced(TRUE, line, r, inp, NoSave)))
          /\ input_history' = Append(input_history, line \o <<"\n">>)
    /\ UNCHANGED <<script, pc, idx, ret, registry, pl_result>>

\* any other line whose evaluation raises: the line is already in input_history,
\* the except clause prints the error and the loop goes on
repl_process_raise ==
    /\ pc = "repl"
    /\ Len(trace) < MaxInputs
    /\ \E line \in ReplLines, inp \in StdinLines :
          /\ ~is_exit(line)
          /\ ~is_save(line)
          /\ LetIn(process_line(Self(inp), line), LAMBDA r :
                /\ IsErr(r.val)
                /\ trace' = Append(trace, ReplTraced(TRUE, line, r, inp, NoSave)))
          /\ input_history' = Append(input_history, line \o <<"\n">>)
    /\ UNCHANGED <<script, results, pc, idx, ret, registry, pl_result>>

\* input("> ") raises EOFError at the end of standard input: the except clause
\* prints it and the loop goes on
repl_eof ==
    /\ pc = "repl"
    /\ Len(trace) < MaxInputs
    /\ trace' = Append(trace, ReplTraced(FALSE, <<>>,
                    [val |-> Err("EOFError", "EOF when reading a line", <<>>), log |-> <<>>],
                    <<>>, NoSave))
    /\ UNCHANGED <<script, results, pc, idx, ret, registry, pl_result, input_history>>

NextRepl ==
    \/ repl_exit
    \/ repl_save
    \/ repl_process
    \/ repl_process_raise
    \/ repl_eof

SpecRepl == InitRepl /\ [][NextRepl]_vars

(***************************************************************************)
(* Properties                                                              *)
(***************************************************************************)
\* the interpreter as line c (1-based) of the script saw it
SelfAt(c) == [results |-> SubSeq(results, 1, c - 1), stdin |-> trace[c].stdin]

\* the first atom of the text that is not a blank, "" when there is none
FirstAtom(text) ==
    IF \E i \in 1..Len(text) : ~IsSpace(text[i])
    THEN text[CHOOSE i \in 1..Len(text) :
                 ~IsSpace(text[i]) /\ \A j \in 1..(i - 1) : IsSpace(text[j])]
    ELSE ""

IsCommandLine(text) == FirstAtom(text) = "!"

IsBlankOrComment(text) == FirstAtom(text) \in {"", "#"}

IsLiteralLine(text) == FirstAtom(text) \notin {"", "#", "!", "?"}

\* the events of line c of one kind
EventsOf(c, kind) == SelectSeq(trace[c].log, LAMBDA e : e.ev = kind)

\* the step appended the value process_line returned for the line just evaluated
AppendedOne ==
    /\ Len(results') = Len(results) + 1
    /\ Len(trace') = Len(trace) + 1
    /\ results'[Len(results')] = trace'[Len(trace')].val

\* C1: the history is append-only and in line order. Every step leaves the old
\* history as a prefix of the new one; a line evaluated without error appends
\* exactly one entry, the result of that line; and when process_script returns
\* from a script of N lines, len(results) = N, results[i] is the result of line
\* i and the returned value is results[N-1].
C1_HistoryAppendOnly ==
    [][/\ Len(results') >= Len(results)
       /\ SubSeq(results', 1, Len(results)) = results
       /\ (idx' = idx + 1 => AppendedOne)
       /\ (idx' = idx => results' = results)
       /\ (pc' = "returned" =>
             /\ Len(results') = Len(script')
             /\ \A i \in 1..Len(script') : results'[i] = trace'[i].val
             /\ ret' = results'[Len(script')])]_vars

\* a three-line script ran to the end and left three different results
C1_Witness ==
    /\ pc = "returned"
    /\ Len(results) = 3
    /\ results[1] # results[2]
    /\ results[2] # results[3]

\* the positions of the `$` that start a result reference in the text
RefPositions(text) ==
    {i \in 1..Len(text) : text[i] = "$" /\ i < Len(text) /\ text[i + 1] \in Digits}

\* the index k written after the `$` at position i
RefIndex(text, i) == DecVal(SubSeq(text, i + 1, NonSpaceRunEnd(text, i)))

IsInvalidRef(v) == IsErr(v) /\ v.msg = "Invalid result reference"

\* some explicit argument of some segment of line c holds the value v
SomeArgHolds(c, v) ==
    \E n \in 1..Len(EventsOf(c, "apply")) :
        \E j \in 1..Len(EventsOf(c, "apply")[n].explicit) :
            EventsOf(c, "apply")[n].explicit[j].val = v

\* C2: history indexing. While the command line at index c is evaluated, every
\* argument token $k with k >= c makes the line fail with an invalid-result-
\* reference error, and every token $k with 0 <= k < c resolves to results[k]:
\* a line that evaluates hands results[k] to its operator as an argument.
C2_RefsResolveOrFail ==
    \A c \in 1..Len(trace) :
        IsCommandLine(script[c]) =>
            \A i \in RefPositions(script[c]) :
                /\ RefIndex(script[c], i) >= c - 1 => IsInvalidRef(trace[c].val)
                /\ (RefIndex(script[c], i) < c - 1 /\ ~IsErr(trace[c].val)) =>
                       SomeArgHolds(c, results[RefIndex(script[c], i) + 1])

\* the segments of a command line: the texts between the `|>`
Segments(text) == split(Tail(strip(text)), <<"|>">>)

\* the segment is a bare operator name
IsBareOp(seg) == Len(strip(seg)) = 1

\* a registered operator declared with one argument and without interpreter context
IsUnary(seg) ==
    /\ IsBareOp(seg)
    /\ Registered(strip(seg))
    /\ operators[strip(seg)[1]].aipl_arity = 1
    /\ ~operators[strip(seg)[1]].aipl_needs_interpreter
    /\ Len(operators[strip(seg)[1]].params) = 1

\* the implementation named by the segment applied to x
Applied(c, seg, x) == Invoke(SelfAt(c), operators[strip(seg)[1]], <<x>>).val

\* line c is `!a |> b |> c` of unary operators without arguments, evaluated with a
\* non-None last history entry on which c(b(a(current))) is defined
IsPipe3(c) ==
    /\ IsCommandLine(script[c])
    /\ Len(Segments(script[c])) = 3
    /\ \A j \in 1..3 : IsUnary(Segments(script[c])[j])
    /\ c > 1
    /\ results[c - 1] # None

Pipe3Value(c) ==
    LetIn(Applied(c, Segments(script[c])[1], results[c - 1]), LAMBDA a :
    LetIn(IF IsErr(a) THEN a ELSE Applied(c, Segments(script[c])[2], a), LAMBDA b :
          IF IsErr(b) THEN b ELSE Applied(c, Segments(script[c])[3], b)))

\* the number of invocations of the operator of segment j during line c
InvocationsOf(c, j) ==
    Cardinality({n \in 1..Len(EventsOf(c, "invoke")) :
        <<EventsOf(c, "invoke")[n].op>> = strip(Segments(script[c])[j])})

\* C3: pipeline composition order. For a line `!a |> b |> c` of one-argument
\* operators without explicit arguments and a non-None last history entry
\* `current`, the line's result is c(b(a(current))) and each of the three
\* implementations is invoked exactly once.
C3_PipelineComposes ==
    \A c \in 1..Len(trace) :
        (IsPipe3(c) /\ ~IsErr(Pipe3Value(c))) =>
            /\ trace[c].val = Pipe3Value(c)
            /\ \A j \in 1..3 : InvocationsOf(c, j) = 1

\* the parameters of the operator that take script arguments
DataParams(op) == IF op.aipl_needs_interpreter THEN Tail(op.params) ELSE op.params

\* parameter j is given by name, or by position, among the explicit arguments
Covered(op, explicit, j) ==
    \/ HasKey(explicit, StrKey(<<DataParams(op)[j].name>>))
    \/ HasKey(explicit, StrKey(IntText(j - 1)))

ExplicitFor(op, explicit, j) ==
    IF HasKey(explicit, StrKey(<<DataParams(op)[j].name>>))
    THEN explicit[CHOOSE n \in 1..Len(explicit) :
                      explicit[n].key = StrKey(<<DataParams(op)[j].name>>)].val
    ELSE explicit[CHOOSE n \in 1..Len(explicit) :
                      explicit[n].key = StrKey(IntText(j - 1))].val

Uncovered(op, explicit) ==
    {j \in 1..Len(DataParams(op)) : ~Covered(op, explicit, j)}

\* every explicit argument names a parameter or a position of the operator
ArgsFit(op, explicit) ==
    \A n \in 1..Len(explicit) :
        \E j \in 1..Len(DataParams(op)) :
            explicit[n].key \in {StrKey(<<DataParams(op)[j].name>>), StrKey(IntText(j - 1))}

\* the call the line stands for: each parameter takes its explicit argument, the
\* one parameter left takes the implicit value p
ImplicitCall(c, op, explicit, p) ==
    Invoke(SelfAt(c), op,
           (IF op.aipl_needs_interpreter THEN <<Interp>> ELSE <<>>) \o
           [j \in 1..Len(DataParams(op)) |->
               IF Covered(op, explicit, j) THEN ExplicitFor(op, explicit, j) ELSE p])

\* line c is a single-segment command whose operator has exactly one parameter
\* its explicit arguments do not cover, evaluated with a non-None previous result
IsImplicitInput(c) ==
    /\ IsCommandLine(script[c])
    /\ Len(Segments(script[c])) = 1
    /\ Len(EventsOf(c, "apply")) = 1
    /\ Registered(EventsOf(c, "apply")[1].op)
    /\ EventsOf(c, "apply")[1].result # None
    /\ ArgsFit(operators[EventsOf(c, "apply")[1].op[1]], EventsOf(c, "apply")[1].explicit)
    /\ Cardinality(Uncovered(operators[EventsOf(c, "apply")[1].op[1]],
                             EventsOf(c, "apply")[1].explicit)) = 1

\* C4: implicit input. On a single-segment command line whose operator has
\* exactly one parameter not covered by the explicit arguments, and for every
\* non-None previous result p, the operator is invoked once with the explicit
\* arguments plus p in the remaining parameter and its value is the line's result.
C4_ImplicitInput ==
    \A c \in 1..Len(trace) :
        IsImplicitInput(c) =>
            LetIn(EventsOf(c, "apply")[1], LAMBDA e :
            LetIn(ImplicitCall(c, operators[e.op[1]], e.explicit, e.result), LAMBDA call :
                /\ EventsOf(c, "invoke") = call.log
                /\ trace[c].val = call.val))

\* C5: blank/comment passthrough. A line that is empty after trimming or whose
\* first non-blank character is `#` invokes no operator and appends an entry
\* equal to the entry before it (None on an empty history); so after a run of
\* blank/comment lines that follows a command line the newest entry still is
\* that command's result, one entry having been appended per line.
C5_BlankPassthrough ==
    \A c \in 1..Len(trace) :
        IsBlankOrComment(script[c]) =>
            /\ trace[c].log = <<>>
            /\ Len(results) >= c
            /\ results[c] = (IF c = 1 THEN None ELSE results[c - 1])
            /\ \A b \in 1..(c - 1) :
                  (/\ IsCommandLine(script[b])
                   /\ \A m \in (b + 1)..c : IsBlankOrComment(script[m]))
                  => results[c] = trace[b].val

\* a command produced a value and a blank line and a comment line followed it
C5_Witness ==
    /\ Len(results) = 3
    /\ IsCommandLine(script[1])
    /\ results[1] # None
    /\ script[2] = L_blank
    /\ script[3] = L_comment
    /\ results[3] = results[1]

\* t is the text with its leading and trailing blanks removed
IsTrimOf(t, text) ==
    /\ t # <<>>
    /\ ~IsSpace(t[1])
    /\ ~IsSpace(t[Len(t)])
    /\ \E a \in 0..Len(text) :
          /\ a + Len(t) <= Len(text)
          /\ SubSeq(text, a + 1, a + Len(t)) = t
          /\ \A i \in (1..a) \cup ((a + Len(t) + 1)..Len(text)) : IsSpace(text[i])

\* C6: literal round-trip. A line whose trimmed text is non-empty and does not
\* start with `!`, `?` or `#` evaluates to exactly the trimmed text, whatever the
\* history holds, without invoking an operator; and process_line applied to that
\* result returns the same result.
C6_LiteralRoundTrip ==
    \A c \in 1..Len(trace) :
        IsLiteralLine(script[c]) =>
            /\ trace[c].val.tag = "str"
            /\ IsTrimOf(trace[c].val.s, script[c])
            /\ trace[c].log = <<>>
            /\ process_line(SelfAt(c), trace[c].val.s).val = trace[c].val
            /\ process_line(Self(<<>>), trace[c].val.s).val = trace[c].val

\* a literal with blanks around and inside it was evaluated on a non-empty history
C6_Witness ==
    /\ Len(results) >= 2
    /\ results[1] # None
    /\ script[2] = L_litab
    /\ results[2] = StrV(<<"a", " ", "b">>)

\* the operator name of a segment: its first word
SegName(seg) == IF split_max1(strip(seg)) = <<>> THEN <<>> ELSE split_max1(strip(seg))[1]

\* the segments of line c that name an operator missing from the registry
UnknownSegs(c) ==
    IF ~IsCommandLine(script[c]) THEN {}
    ELSE {j \in 1..Len(Segments(script[c])) :
             /\ SegName(Segments(script[c])[j]) # <<>>
             /\ ~Registered(SegName(Segments(script[c])[j]))}

IsUnknownOperatorErr(v, name) ==
    IsErr(v) /\ v.kind = "ValueError" /\ v.msg = "Unknown operator" /\ v.arg = name

\* the history holds exactly the results of the lines before line c
HistoryAsBefore(c) ==
    /\ Len(results) = c - 1
    /\ \A i \in 1..(c - 1) : results[i] = trace[i].val

\* C7 as stated: whichever segment of a command line names an operator that is
\* not registered, the line fails with the unknown-operator error carrying that
\* name and the history is left as it was before the line.
C7_UnknownOperatorAnySegment ==
    \A c \in 1..Len(trace) :
        \A j \in UnknownSegs(c) :
            /\ IsUnknownOperatorErr(trace[c].val, SegName(Segments(script[c])[j]))
            /\ HistoryAsBefore(c)

FirstUnknownSeg(c) == CHOOSE j \in UnknownSegs(c) : \A m \in UnknownSegs(c) : j <= m

\* C7 amended: a command line with a segment naming an unregistered operator
\* fails and leaves the history as it was before the line. Evaluation ends no
\* later than the first such segment; when it reaches that segment's operator
\* lookup (no earlier segment raised and the segment's own arguments parsed) the
\* error is the unknown-operator error carrying that segment's name.
C7_UnknownOperatorFails ==
    \A c \in 1..Len(trace) :
        UnknownSegs(c) # {} =>
            /\ IsErr(trace[c].val)
            /\ HistoryAsBefore(c)
            /\ trace[c].seg <= FirstUnknownSeg(c)
            /\ trace[c].seg = FirstUnknownSeg(c) => trace[c].step \in {"parse", "apply"}
            /\ (trace[c].seg = FirstUnknownSeg(c) /\ trace[c].step = "apply") =>
                  IsUnknownOperatorErr(trace[c].val,
                                       SegName(Segments(script[c])[FirstUnknownSeg(c)]))

\* an unknown operator in the middle of a pipeline failed a line on a non-empty history
C7_Witness ==
    /\ pc = "raised"
    /\ Len(results) >= 1
    /\ script[Len(trace)] = L_pipe_unk
    /\ IsUnknownOperatorErr(ret, <<"frob">>)
    /\ trace[Len(trace)].seg = 2

\* C8: a batch run stops at the first error. Only the newest evaluated line can
\* have raised; when one has, the error has left process_script, the history
\* holds exactly the results of the lines before it, and from then on nothing is
\* evaluated, invoked or appended.
C8_StopsAtFirstError ==
    [][/\ \A i \in 1..(Len(trace') - 1) : ~IsErr(trace'[i].val)
       /\ (pc' = "raised" =>
             /\ IsErr(trace'[Len(trace')].val)
             /\ ret' = trace'[Len(trace')].val
             /\ Len(results') = Len(trace') - 1
             /\ \A i \in 1..Len(results') : results'[i] = trace'[i].val)
       /\ ((Len(trace') > 0 /\ IsErr(trace'[Len(trace')].val)) => pc' = "raised")
       /\ (pc = "raised" => (pc' = "raised" /\ trace' = trace /\ results' = results))]_vars

\* a line raised after an earlier line had produced a result, with lines left to run
C8_Witness ==
    /\ pc = "raised"
    /\ Len(results) >= 1
    /\ Len(trace) < Len(script)
    /\ \E i \in 1..Len(results) : trace[i].log # <<>>

\* every apply_operator call made so far: the apply events of every line
AllApplies == {<<c, n>> \in (1..Len(trace)) \X (1..10) : n <= Len(EventsOf(c, "apply"))}

ApplyAt(cn) == EventsOf(cn[1], "apply")[cn[2]]

\* the call stored the implicit value in the argument dict
Injected(e) == Len(e.args) > Len(e.explicit)

\* C9: saturation rule. For a registered operator, apply_operator invokes the
\* implementation at once if and only if explicit_count + (1 if the implicit
\* value was injected else 0) >= the arity declared to @defop; otherwise it
\* invokes nothing and returns a deferred callable.
C9_SaturationByDeclaredArity ==
    \A cn \in AllApplies :
        LetIn(ApplyAt(cn), LAMBDA e :
            (Registered(e.op) /\ (e.invoked \/ e.ret.tag = "partial")) =>
                /\ e.invoked <=>
                      (Len(e.explicit) + (IF Injected(e) THEN 1 ELSE 0)
                          >= operators[e.op[1]].aipl_arity)
                /\ ~e.invoked => e.ret.tag = "partial")

\* the implicit value p is of the type the parameter is annotated with
Fits(p, hint) ==
    \/ hint \in {"", "Any"}
    \/ IsInstance(p, BaseType(hint))

\* C10: implicit injection. For an operator of declared arity 2 that does not
\* need the interpreter, given exactly one explicit argument and a non-None
\* implicit value that fits the empty parameter, apply_operator injects the
\* value and executes the implementation at once: it returns the operator's
\* value, not a deferred callable.
C10_InjectsAndExecutes ==
    \A cn \in AllApplies :
        LetIn(ApplyAt(cn), LAMBDA e :
            (/\ Registered(e.op)
             /\ operators[e.op[1]].aipl_arity = 2
             /\ ~operators[e.op[1]].aipl_needs_interpreter
             /\ Len(operators[e.op[1]].params) = 2
             /\ Len(e.explicit) = 1
             /\ e.result # None
             /\ ArgsFit(operators[e.op[1]], e.explicit)
             /\ \A j \in Uncovered(operators[e.op[1]], e.explicit) :
                   Fits(e.result, operators[e.op[1]].params[j].hint))
            => (e.invoked /\ Injected(e) /\ e.ret.tag # "partial"))

\* the apply_operator call of the last segment of a line that reached the forcing step
LastApply(c) == EventsOf(c, "apply")[Len(EventsOf(c, "apply"))]

IsForced(c) == trace[c].step = "force"

\* the outcome of line c is that of calling the deferred call with `more`
ForcedWith(c, e, more) ==
    LetIn(CallPartial(SelfAt(c), e.ret, more), LAMBDA r :
        /\ trace[c].val = r.val
        /\ (r.log # <<>> => trace[c].log[Len(trace[c].log)] = r.log[1]))

ForcedBare(e) == callable(e.ret) /\ operators[e.ret.op].aipl_arity = Len(e.args)

AsInspect(text) ==
    LetIn(strip(text), LAMBDA line : <<"!", "inspect", " ">> \o Tail(line))

\* C12: a line whose trimmed text starts with `?name` is evaluated as the command
\* `!inspect name`: the pipeline runs, inspect is invoked with name, and the line
\* is never returned as a literal string.
C12_QueryIsInspect ==
    \A c \in 1..Len(trace) :
        FirstAtom(script[c]) = "?" =>
            /\ trace[c].step # "literal"
            /\ \E i \in 1..Len(trace[c].log) :
                  trace[c].log[i].ev = "invoke" /\ trace[c].log[i].op = "inspect"
            /\ trace[c].val = process_line(SelfAt(c), AsInspect(script[c])).val

IsDuplicateOperatorErr(v) == IsErr(v) /\ v.kind = "DuplicateOperator"

\* C13: registering an operator under a name that is already in the registry
\* fails with a DuplicateOperator error and leaves the existing entry for that
\* name unchanged; the earlier implementation is never silently replaced.
C13_DuplicateRejected ==
    [][(/\ Len(trace') = Len(trace) + 1
        /\ trace'[Len(trace')].name \in DOMAIN registry)
       => (/\ registry' = registry
           /\ IsDuplicateOperatorErr(ret'))]_vars

\* the argument text of a segment: what follows the operator name
ArgLine(seg) ==
    IF Len(split_max1(strip(seg))) > 1 THEN split_max1(strip(seg))[2] ELSE <<>>

\* the tokens of a segment's argument text (no value of the scripts holds a blank)
Tokens(seg) == split_ws(ArgLine(seg))

\* a token key=value: a run of word atoms, then "="
IsNamedToken(tok) ==
    /\ IndexOf(tok, 1, "=") > 1
    /\ \A i \in 1..(IndexOf(tok, 1, "=") - 1) : IsWord(tok[i])

TokenKey(tok) == SubSeq(tok, 1, IndexOf(tok, 1, "=") - 1)

\* the ordinal of token i among the bare tokens before it
BareOrdinal(toks, i) == Cardinality({j \in 1..(i - 1) : ~IsNamedToken(toks[j])})

\* the argument map holds one entry per token: named under its key, bare under
\* its stringified ordinal
MapsEveryToken(toks, args) ==
    /\ Len(args) = Len(toks)
    /\ \A i \in 1..Len(toks) :
          IF IsNamedToken(toks[i]) THEN HasKey(args, StrKey(TokenKey(toks[i])))
          ELSE HasKey(args, StrKey(IntText(BareOrdinal(toks, i))))

\* C14: argument tokenizing. A segment may mix named and positional tokens; the
\* argument map parse_command hands to apply_operator contains one entry per named
\* token under its key and one entry per bare token under the stringified ordinal
\* of that token among the bare tokens, so no token of the segment is dropped.
C14_NoTokenDropped ==
    \A c \in 1..Len(trace) :
        IsCommandLine(script[c]) =>
            \A n \in 1..Len(EventsOf(c, "apply")) :
                MapsEveryToken(Tokens(Segments(script[c])[n]),
                               EventsOf(c, "apply")[n].explicit)

\* the positions of the log of line c at which an implementation was entered right
\* after the apply_operator call that resolved its arguments
InvokedAt(c) ==
    {i \in 2..Len(trace[c].log) :
        /\ trace[c].log[i].ev = "invoke"
        /\ trace[c].log[i - 1].ev = "apply"}

\* the position of the parameter called name in the operator's signature, 0 if none
ParamIndex(op, name) ==
    IF \E j \in 1..Len(op.params) : <<op.params[j].name>> = name
    THEN CHOOSE j \in 1..Len(op.params) : <<op.params[j].name>> = name
    ELSE 0

\* every named argument of the apply event reached the parameter of that name
NamedInPlace(op, e, iv) ==
    \A j \in 1..Len(e.explicit) :
        (e.explicit[j].key.k = "str" /\ ParamIndex(op, e.explicit[j].key.s) # 0) =>
            /\ ParamIndex(op, e.explicit[j].key.s) <= Len(iv.args)
            /\ iv.args[ParamIndex(op, e.explicit[j].key.s)] = e.explicit[j].val

\* C15: argument ordering. When an operator is invoked, the interpreter is the
\* first argument exactly when the operator needs context, and a named argument
\* k=v reaches the parameter named k whatever the order in which the tokens were
\* written: `!format v=5 fmt="n={}"` and `!format fmt="n={}" v=5` give the same
\* result.
C15_ArgsByParameter ==
    /\ \A c \in 1..Len(trace) : \A i \in InvokedAt(c) :
          LetIn(operators[trace[c].log[i].op], LAMBDA op :
              /\ (op.aipl_needs_interpreter <=>
                    (trace[c].log[i].args # <<>> /\ trace[c].log[i].args[1] = Interp))
              /\ NamedInPlace(op, trace[c].log[i - 1], trace[c].log[i]))
    /\ \A c, d \in 1..Len(trace) :
          (script[c] = L_format_vf /\ script[d] = L_format_fv) =>
              trace[c].val = trace[d].val

\* C16: excess arguments. When a segment supplies more explicit arguments than the
\* operator's declared arity, the operator is still invoked, the extra arguments
\* are ignored, and the line produces a result instead of an error.
C16_ExcessTolerated ==
    \A c \in 1..Len(trace) :
        \A n \in 1..Len(EventsOf(c, "apply")) :
            LetIn(EventsOf(c, "apply")[n], LAMBDA e :
                (/\ Registered(e.op)
                 /\ Len(e.explicit) > operators[e.op[1]].aipl_arity
                 /\ n = Len(Segments(script[c])))
                => (e.invoked /\ ~IsErr(trace[c].val)))

\* line b is the last line before the run of blank/comment lines that ends just
\* before line c
EndsRunAfter(b, c) ==
    /\ b < c - 1
    /\ ~IsBlankOrComment(script[b])
    /\ \A k \in (b + 1)..(c - 1) : IsBlankOrComment(script[k])

\* the operator of line c was called with v = x
ReceivedV(c, x) ==
    /\ trace[c].step = "call"
    /\ \E i \in 1..Len(trace[c].kwargs) :
          trace[c].kwargs[i].key = StrKey(<<"v">>) /\ trace[c].kwargs[i].val = x

WritesV(text) == \E i \in 1..(Len(text) - 1) : text[i] = "v" /\ text[i + 1] = "="

\* C17: blank/comment passthrough in src/pl.py. A blank line or a line whose first
\* non-blank character is # passes the prior result through, so the command line
\* that follows a run of blank/comment lines receives as implicit v the result of
\* the last line before that run.
C17_PlBlankPassthrough ==
    \A c \in 1..Len(trace) : \A b \in 1..(c - 1) :
        (/\ IsCommandLine(script[c])
         /\ ~WritesV(script[c])
         /\ EndsRunAfter(b, c)
         /\ trace[b].val # None)
        => (/\ trace[c].prev = trace[b].val
            /\ (trace[c].step = "call" => ReceivedV(c, trace[b].val)))

\* the positions of the `$` of the named argument values $n of the text
NamedRefPositions(text) == {i \in RefPositions(text) : i > 1 /\ text[i - 1] = "="}

\* C18: result references in src/backup2.py. A named argument value $n with
\* 0 <= n < len(results) resolves to results[n], the result of line n as an
\* absolute 0-based index ($0 is the first line's result); only an n outside that
\* range fails with an invalid-result-reference error.
C18_Backup2AbsoluteRefs ==
    \A c \in 1..Len(trace) :
        IsCommandLine(script[c]) =>
            \A i \in NamedRefPositions(script[c]) :
                IF RefIndex(script[c], i) < c - 1
                THEN /\ ~IsInvalidRef(trace[c].val)
                     /\ SomeArgHolds(c, results[RefIndex(script[c], i) + 1])
                ELSE IsInvalidRef(trace[c].val)

\* the typed line is `exit` in some mix of cases
TypedExit(line) ==
    /\ Len(line) = 4
    /\ line[1] \in {"e", "E"} /\ line[2] \in {"x", "X"}
    /\ line[3] \in {"i", "I"} /\ line[4] \in {"t", "T"}

\* the typed line begins with `save` in some mix of cases
TypedSave(line) ==
    /\ Len(line) >= 4
    /\ line[1] \in {"s", "S"} /\ line[2] \in {"a", "A"}
    /\ line[3] \in {"v", "V"} /\ line[4] \in {"e", "E"}

\* iteration i read a line that is neither exit nor save, so it was processed
WasProcessed(t) == t.read /\ ~TypedExit(t.line) /\ ~TypedSave(t.line)

ProcessedOk(tr) == {i \in 1..Len(tr) : WasProcessed(tr[i]) /\ ~IsErr(tr[i].val)}

ProcessedAll(tr) == {i \in 1..Len(tr) : WasProcessed(tr[i])}

\* C19: REPL error recovery. A line whose processing raises leaves aipl.results
\* unchanged and the loop goes on to the next input; a line processed without
\* error appends exactly one entry, its result. After any sequence of inputs
\* len(aipl.results) is the number of non-exit, non-save lines processed without
\* error, at most len(input_history), which also counts the failing lines; and
\* the loop ends exactly on an input equal to `exit` in any case.
C19_ReplRecovers ==
    [][/\ Len(trace') = Len(trace) + 1
       /\ LetIn(trace'[Len(trace')], LAMBDA t :
             /\ (WasProcessed(t) /\ IsErr(t.val)) =>
                   (results' = results /\ pc' = "repl"
                    /\ input_history' = Append(input_history, t.line \o <<"\n">>))
             /\ (WasProcessed(t) /\ ~IsErr(t.val)) =>
                   (results' = Append(results, t.val) /\ pc' = "repl"
                    /\ t.val = process_line([results |-> results, stdin |-> t.stdin], t.line).val)
             /\ ~WasProcessed(t) => (results' = results /\ input_history' = input_history)
             /\ (pc' = "exited") <=> (t.read /\ TypedExit(t.line)))
       /\ Len(results') = Cardinality(ProcessedOk(trace'))
       /\ Len(input_history') = Cardinality(ProcessedAll(trace'))
       /\ Len(results') <= Len(input_history')]_vars

\* a line raised, a later line was processed and appended, the history of inputs is
\* longer than the results, and the loop ended on EXIT
C19_Witness ==
    /\ pc = "exited"
    /\ Len(trace) = 3
    /\ WasProcessed(trace[1]) /\ IsErr(trace[1].val)
    /\ WasProcessed(trace[2]) /\ ~IsErr(trace[2].val)
    /\ trace[3].line = R_EXIT
    /\ Len(results) = 1
    /\ Len(input_history) = 2

====
